---- MODULE Spec2Model ----
(***************************************************************************)
(* Error detectors of MISP_SQL/error_detector.py.                          *)
(*                                                                         *)
(* One detector object (self) is constructed, and a caller invokes its     *)
(* detection method repeatedly on one decision sequence, choosing the      *)
(* bool_return_first flag at every call.  A call is modelled statement by  *)
(* statement: the entry test and segmentation, then one action per pass    *)
(* through the body of the for loop.                                       *)
(*                                                                         *)
(* SpecErrorDetector is the abstract base ErrorDetector called the same    *)
(* way.  SpecBatches is the batching of EditSQL/data_util/atis_data.py:    *)
(* one call of get_utterance_batches or get_interaction_batches on a       *)
(* dataset, one action per pass through its for loop.                      *)
(*                                                                         *)
(* A floating point number read from a decimal literal with one fractional *)
(* digit is written in tenths: 4 is the double nearest to 0.4, 10 is 1.0.  *)
(* Comparing two such doubles is comparing their tenths.                   *)
(***************************************************************************)
EXTENDS Integers, Sequences, FiniteSets, TLC

\* Longest decision sequence handed to detection.
MaxLen == 2

\* The tag of a decision record that is not a semantic unit.
OUTSIDE == "O"

\* Python's None, as the value of a local or of an exception slot.
None == "None"

\* The keyword argument eval_tf: not supplied (None) or a list of booleans.
NoneObject == [type |-> "NoneType", items |-> <<>>]
ListObject(s) == [type |-> "list", items |-> s]

\* The literals 1 and 0.5 of ErrorDetectorFNN.detection, in tenths.
One == 10
Half == 5

ErrorDetector == "ErrorDetector"
Sim == "ErrorDetectorSim"
Probability == "ErrorDetectorProbability"
BayesDropout == "ErrorDetectorBayesDropout"
FNN == "ErrorDetectorFNN"

\* Tags of semantic units.
UnitTags == {"SELECT_COL", "WHERE_OP"}

\* Recorded probabilities of the decisions, in tenths.
ProbValues == {0, 4, 5, 10}

StartPositions == (0 - 1) .. MaxLen

SeqsUpTo(S, n) == UNION {[1 .. k -> S] : k \in 0 .. n}

\* A decision sequence: the record at index p (from 0) is the tuple
\* (tag, ..., confidence, p), read by the detectors at [0] and [-2].
DecisionSeq(f) == [p \in DOMAIN f |-> <<f[p][1], f[p][2], p - 1>>]

\* The largest number of interactions in the training data, and the largest
\* batch_size asked for.
MaxExamples == 3
MaxBatchSize == 3

ATISDataset == "ATISDataset"
get_utterance_batches == "get_utterance_batches"
get_interaction_batches == "get_interaction_batches"

\* The interactions a dataset is made of: a name and, for each of its
\* utterances, what utterance.length_valid answers for it.
Interactions ==
    {[name |-> "a", utterances |-> <<TRUE>>],
     [name |-> "b", utterances |-> <<TRUE, FALSE>>],
     [name |-> "c", utterances |-> <<TRUE, TRUE>>]}

VARIABLES
    self,                  \* the detector: its class and configuration
    tag_seq,               \* argument: the decision sequence
    start_pos,             \* argument
    eval_tf,               \* keyword argument (None when not supplied)
    bool_return_first,     \* argument, chosen at every call
    pc,                    \* "idle", "loop", "returned" or "raised"
    semantic_units,        \* local: first result of semantic_unit_segment
    pointers,              \* local: second result of semantic_unit_segment
    i,                     \* position of the for loop in zip(semantic_units, pointers)
    err_su_pointer_pairs,  \* local
    x,                     \* local of ErrorDetectorFNN.detection
    y,                     \* local of ErrorDetectorFNN.detection
    ret,                   \* the value returned (when pc = "returned")
    exc,                   \* the exception raised (when pc = "raised")
    segment_calls,         \* calls of semantic_unit_segment made by this call
    eval_tf_reads,         \* subscriptions of eval_tf made by this call
    model_calls,           \* the inputs handed to self.model by this call
    prev,                  \* how the previous call ended
    method,                \* the batching method of ATISDataset called
    batch_size,            \* argument of the batching methods
    randomize,             \* argument of the batching methods
    items,                 \* local of the batching methods
    batches,               \* local of the batching methods
    current_batch_items,   \* local of the batching methods
    item_pos               \* position of the for loop in items

vars == <<self, tag_seq, start_pos, eval_tf, bool_return_first, pc,
          semantic_units, pointers, i, err_su_pointer_pairs, x, y, ret, exc,
          segment_calls, eval_tf_reads, model_calls, prev, method,
          batch_size, randomize, items, batches, current_batch_items,
          item_pos>>

\* What a batching method of ATISDataset works on, beyond pc, ret and exc.
batching == <<method, batch_size, randomize, items, batches,
              current_batch_items, item_pos>>

\* What a detection call works on, beyond self, pc, ret and exc.
detecting == <<tag_seq, start_pos, eval_tf, bool_return_first,
               semantic_units, pointers, i, err_su_pointer_pairs, x, y,
               segment_calls, eval_tf_reads, model_calls, prev>>

args == <<self, tag_seq, start_pos, eval_tf>>

----------------------------------------------------------------------------
(* Collaborators *)

RECURSIVE segment_from(_, _)
segment_from(seq, p) ==
    IF p > Len(seq) THEN <<>>
    ELSE IF seq[p][1] # OUTSIDE
         THEN <<p>> \o segment_from(seq, p + 1)
         ELSE segment_from(seq, p + 1)

\* utils.semantic_unit_segment: the semantic units of a decision sequence
\* and their pointers (indices from 0), both in the order of the sequence.
semantic_unit_segment(seq) ==
    LET at == segment_from(seq, 1)
    IN  <<[k \in DOMAIN at |-> seq[at[k]]], [k \in DOMAIN at |-> at[k] - 1]>>

\* torch.Tensor(x): every entry of the float64 array becomes the
\* single-precision number nearest to it.
Float32(v) == <<"float32", v>>
Tensor(v) == [k \in DOMAIN v |-> Float32(v[k])]

\* Tensor.item(): the single-precision number as a Python float.
Item(t) == t[2]

----------------------------------------------------------------------------
(* Float64 arithmetic (IEEE 754 binary64, round to nearest even), as numpy *)
(* performs it in np.std                                                   *)

\* Bits of the significand of a float64.
Precision == 53

\* Naturals of any size are kept as their digits to the base 2^LimbBits,
\* lowest first, the highest not 0.  A product of two digits fits a machine
\* integer of the model checker.
LimbBits == 15
Base == 2 ^ LimbBits

RECURSIVE BNorm(_)
BNorm(a) ==
    IF a = <<>> THEN <<>>
    ELSE IF a[Len(a)] = 0 THEN BNorm(SubSeq(a, 1, Len(a) - 1))
    ELSE a

RECURSIVE BAddC(_, _, _)
BAddC(a, b, c) ==
    IF a = <<>> /\ b = <<>> THEN (IF c = 0 THEN <<>> ELSE <<c>>)
    ELSE LET da == IF a = <<>> THEN 0 ELSE Head(a)
             db == IF b = <<>> THEN 0 ELSE Head(b)
             s == da + db + c
         IN  <<s % Base>> \o BAddC(IF a = <<>> THEN a ELSE Tail(a),
                                   IF b = <<>> THEN b ELSE Tail(b),
                                   s \div Base)

BAdd(a, b) == BAddC(a, b, 0)

\* a - b - c for a >= b + c
RECURSIVE BSubC(_, _, _)
BSubC(a, b, c) ==
    IF a = <<>> THEN <<>>
    ELSE LET db == IF b = <<>> THEN 0 ELSE Head(b)
             d == Head(a) - db - c
         IN  <<d % Base>> \o BSubC(Tail(a), IF b = <<>> THEN b ELSE Tail(b),
                                   IF d < 0 THEN 1 ELSE 0)

BSub(a, b) == BNorm(BSubC(a, b, 0))

\* -1, 0 or 1 as a < b, a = b or a > b
RECURSIVE BCmpFrom(_, _, _)
BCmpFrom(a, b, k) ==
    IF k = 0 THEN 0
    ELSE IF a[k] < b[k] THEN 0 - 1
    ELSE IF a[k] > b[k] THEN 1
    ELSE BCmpFrom(a, b, k - 1)

BCmp(a, b) ==
    IF Len(a) < Len(b) THEN 0 - 1
    ELSE IF Len(a) > Len(b) THEN 1
    ELSE BCmpFrom(a, b, Len(a))

RECURSIVE BMulSmallC(_, _, _)
BMulSmallC(a, k, c) ==
    IF a = <<>> THEN (IF c = 0 THEN <<>> ELSE <<c>>)
    ELSE LET p == Head(a) * k + c
         IN  <<p % Base>> \o BMulSmallC(Tail(a), k, p \div Base)

BMulSmall(a, k) == BNorm(BMulSmallC(a, k, 0))

RECURSIVE BMul(_, _)
BMul(a, b) ==
    IF a = <<>> \/ b = <<>> THEN <<>>
    ELSE BAdd(BMulSmall(a, Head(b)), BNorm(<<0>> \o BMul(a, Tail(b))))

\* <<a \div d, a % d>> for 0 < d <= Base
RECURSIVE BDivSmallQR(_, _)
BDivSmallQR(a, d) ==
    IF a = <<>> THEN <<<<>>, 0>>
    ELSE LET hi == BDivSmallQR(Tail(a), d)
             cur == hi[2] * Base + Head(a)
         IN  <<<<cur \div d>> \o hi[1], cur % d>>

BDivSmall(a, d) ==
    LET qr == BDivSmallQR(a, d) IN <<BNorm(qr[1]), qr[2]>>

Limbs(n, d) == [k \in 1 .. n |-> d]

\* a * 2^s
BShl(a, s) ==
    IF a = <<>> THEN a
    ELSE BMulSmall(Limbs(s \div LimbBits, 0) \o a, 2 ^ (s % LimbBits))

\* <<a \div 2^s, whether a % 2^s # 0>>
BShr(a, s) ==
    LET n == s \div LimbBits
        low == SubSeq(a, 1, IF n < Len(a) THEN n ELSE Len(a))
        high == SubSeq(a, n + 1, Len(a))
        qr == BDivSmall(high, 2 ^ (s % LimbBits))
    IN  <<qr[1], qr[2] # 0 \/ \E k \in DOMAIN low : low[k] # 0>>

RECURSIVE BitsOf(_)
BitsOf(k) == IF k = 0 THEN 0 ELSE 1 + BitsOf(k \div 2)

BBitLen(a) ==
    IF a = <<>> THEN 0 ELSE (Len(a) - 1) * LimbBits + BitsOf(a[Len(a)])

\* A float64: (-1)^sign * m * 2^e with m of exactly Precision bits, or m
\* empty for 0.  Exponents are unbounded: the numbers met here are far from
\* the subnormal range and from overflow.
FZero == [sign |-> 0, m |-> <<>>, e |-> 0]

\* The float64 nearest to (-1)^sign * (n + r) * 2^e, ties to even, where
\* 0 < r < 1 if inexact and r = 0 otherwise.
FRound(sign, n, e, inexact) ==
    IF n = <<>> THEN FZero
    ELSE LET len == BBitLen(n)
             wide == Precision + 2
             cut == IF len > wide THEN BShr(n, len - wide)
                    ELSE <<BShl(n, wide - len), FALSE>>
             e2 == e + len - wide
             sticky == inexact \/ cut[2]
             qr == BDivSmall(cut[1], 4)
             q == qr[1]
             r == qr[2]
             up == \/ r = 3
                   \/ r = 2 /\ (sticky \/ Head(q) % 2 = 1)
             q1 == IF up THEN BAdd(q, <<1>>) ELSE q
         IN  IF BBitLen(q1) > Precision
             THEN [sign |-> sign, m |-> BDivSmall(q1, 2)[1], e |-> e2 + 3]
             ELSE [sign |-> sign, m |-> q1, e |-> e2 + 2]

\* The float64 of a small natural number.
FInt(k) == FRound(0, BNorm(<<k>>), 0, FALSE)

FNeg(a) == IF a.m = <<>> THEN a ELSE [a EXCEPT !.sign = 1 - a.sign]

FAdd(a, b) ==
    IF a.m = <<>> THEN b
    ELSE IF b.m = <<>> THEN a
    ELSE LET e == IF a.e < b.e THEN a.e ELSE b.e
             na == BShl(a.m, a.e - e)
             nb == BShl(b.m, b.e - e)
             c == BCmp(na, nb)
         IN  IF a.sign = b.sign THEN FRound(a.sign, BAdd(na, nb), e, FALSE)
             ELSE IF c = 0 THEN FZero
             ELSE IF c > 0 THEN FRound(a.sign, BSub(na, nb), e, FALSE)
             ELSE FRound(b.sign, BSub(nb, na), e, FALSE)

FSub(a, b) == FAdd(a, FNeg(b))

FMul(a, b) ==
    FRound((a.sign + b.sign) % 2, BMul(a.m, b.m), a.e + b.e, FALSE)

\* a / n for a natural number n, 0 < n <= Base
FDivInt(a, n) ==
    LET guard == 2 * LimbBits
        qr == BDivSmall(BShl(a.m, guard), n)
    IN  FRound(a.sign, qr[1], a.e - guard, qr[2] # 0)

\* The float64 a decimal literal of k tenths denotes.
FTenths(k) == FDivInt(FInt(k), 10)

\* Whether m1 * 2^e1 > m2 * 2^e2.
BScaledGreater(m1, e1, m2, e2) ==
    LET e == IF e1 < e2 THEN e1 ELSE e2
    IN  BCmp(BShl(m1, e1 - e), BShl(m2, e2 - e)) > 0

\* Whether sqrt(v) > t for floats v >= 0 and t >= 0.  The square root is
\* correctly rounded, so it exceeds t exactly when the real root of v lies
\* above the midpoint of t and the next float64, that is when v exceeds the
\* square of that midpoint (no float64 equals it: the square has more than
\* Precision significant bits).
FSqrtGreater(v, t) ==
    IF t.m = <<>> THEN v.m # <<>>
    ELSE LET mid == BAdd(BMulSmall(t.m, 2), <<1>>)
         IN  /\ v.m # <<>>
             /\ BScaledGreater(v.m, v.e, BMul(mid, mid), 2 * (t.e - 1))

RECURSIVE FSumFrom(_, _, _)
FSumFrom(a, k, acc) ==
    IF k > Len(a) THEN acc ELSE FSumFrom(a, k + 1, FAdd(acc, a[k]))

\* np.add.reduce over a short array: the elements are added in order.
FSum(a) == IF a = <<>> THEN FZero ELSE FSumFrom(a, 2, a[1])

\* numpy's _var (ddof = 0) over float64: the mean of the squared deviations
\* from the mean.
NpVar(arr) ==
    LET n == Len(arr)
        arrmean == FDivInt(FSum(arr), n)
        dev == [k \in 1 .. n |-> FSub(arr[k], arrmean)]
        sq == [k \in 1 .. n |-> FMul(dev[k], dev[k])]
    IN  FDivInt(FSum(sq), n)

----------------------------------------------------------------------------
(* The caller, and the statements that begin and end an activation *)

Finished == pc \in {"returned", "raised"}

\* The caller's record of the call that has just ended.
Outcome == [called |-> TRUE, flag |-> bool_return_first, pc |-> pc,
            ret |-> ret, exc |-> exc]

NoCall == [called |-> FALSE, flag |-> FALSE, pc |-> "idle", ret |-> <<>>,
           exc |-> None]

\* A new activation of detection: fresh locals, nothing called yet.
Activate(flag) ==
    /\ pc \in {"idle", "returned", "raised"}
    /\ prev' = IF Finished THEN Outcome ELSE prev
    /\ bool_return_first' = flag
    /\ i' = 1
    /\ x' = <<>>
    /\ y' = None
    /\ eval_tf_reads' = 0
    /\ model_calls' = <<>>
    /\ UNCHANGED <<batching, args>>

\* return v
Return(v) ==
    /\ pc' = "returned"
    /\ ret' = v
    /\ exc' = None

\* an exception e leaves the method
Raise(e) ==
    /\ pc' = "raised"
    /\ exc' = e
    /\ ret' = <<>>

\* return [] before anything else is done
ReturnAtOnce ==
    /\ Return(<<>>)
    /\ semantic_units' = <<>>
    /\ pointers' = <<>>
    /\ err_su_pointer_pairs' = <<>>
    /\ segment_calls' = 0

\* The pairs of the call before are kept: the list outlives the call.
SegmentOntoOldPairs ==
    /\ semantic_units' = semantic_unit_segment(tag_seq)[1]
    /\ pointers' = semantic_unit_segment(tag_seq)[2]
    /\ segment_calls' = 1
    /\ UNCHANGED err_su_pointer_pairs
    /\ pc' = "loop"
    /\ ret' = <<>>
    /\ exc' = None

\* semantic_units, pointers = semantic_unit_segment(tag_seq)
\* err_su_pointer_pairs = []
Segment ==
    /\ semantic_units' = semantic_unit_segment(tag_seq)[1]
    /\ pointers' = semantic_unit_segment(tag_seq)[2]
    /\ segment_calls' = 1
    /\ err_su_pointer_pairs' = <<>>
    /\ pc' = "loop"
    /\ ret' = <<>>
    /\ exc' = None

\* continue
Continue ==
    /\ i' = i + 1
    /\ UNCHANGED <<pc, ret, exc, err_su_pointer_pairs>>

\* The pair put at the front of the list instead of its end.
AppendPairAtFront(semantic_unit, pointer, stop) ==
    /\ err_su_pointer_pairs' =
           <<<<semantic_unit, pointer>>>> \o err_su_pointer_pairs
    /\ IF stop
       THEN /\ pc' = "returned"
            /\ ret' = err_su_pointer_pairs'
            /\ exc' = None
            /\ UNCHANGED i
       ELSE /\ i' = i + 1
            /\ UNCHANGED <<pc, ret, exc>>

\* err_su_pointer_pairs.append((semantic_unit, pointer)), and the return
\* that follows it when stop holds
AppendPair(semantic_unit, pointer, stop) ==
    /\ err_su_pointer_pairs' =
           Append(err_su_pointer_pairs, <<semantic_unit, pointer>>)
    /\ IF stop
       THEN /\ Return(err_su_pointer_pairs')
            /\ UNCHANGED i
       ELSE /\ i' = i + 1
            /\ UNCHANGED <<pc, ret, exc>>

InLoop(class) ==
    /\ self.class = class
    /\ pc = "loop"
    /\ i <= Len(semantic_units)

----------------------------------------------------------------------------
(* ErrorDetector, the abstract base *)

\* ErrorDetector.__init__ sets no field; detection takes any arguments.
ErrorDetectorInit ==
    /\ self = [class |-> ErrorDetector]
    /\ \E f \in SeqsUpTo({OUTSIDE, "SELECT_COL"} \X {4, 10}, MaxLen) :
           tag_seq = DecisionSeq(f)
    /\ \/ eval_tf = NoneObject
       \/ \E s \in SeqsUpTo(BOOLEAN, MaxLen) : eval_tf = ListObject(s)

\* The entry test of the subclasses put before the raise.
ErrorDetectorCallWithEntryTest(flag) ==
    /\ self.class = ErrorDetector
    /\ Activate(flag)
    /\ IF start_pos >= Len(tag_seq)
       THEN ReturnAtOnce
       ELSE /\ Raise("NotImplementedError")
            /\ semantic_units' = <<>>
            /\ pointers' = <<>>
            /\ err_su_pointer_pairs' = <<>>
            /\ segment_calls' = 0

\* ErrorDetector.detection is called: raise NotImplementedError
ErrorDetectorCall(flag) ==
    /\ self.class = ErrorDetector
    /\ Activate(flag)
    /\ Raise("NotImplementedError")
    /\ semantic_units' = <<>>
    /\ pointers' = <<>>
    /\ err_su_pointer_pairs' = <<>>
    /\ segment_calls' = 0

----------------------------------------------------------------------------
(* ErrorDetectorSim *)

SimInit ==
    /\ self = [class |-> Sim]
    /\ \E f \in SeqsUpTo({OUTSIDE, "SELECT_COL"} \X {4, 10}, MaxLen) :
           tag_seq = DecisionSeq(f)
    /\ \/ eval_tf = NoneObject
       \/ \E s \in SeqsUpTo(BOOLEAN, MaxLen) : eval_tf = ListObject(s)

\* if start_pos >= len(tag_seq)
SimStartBeyond(seq, pos) == pos >= Len(seq)

\* if pointer < start_pos
SimBefore(pointer, pos) == pointer < pos

\* The flag ignored: the loop always runs to its end.
SimReturnFirstIgnored(flag) == FALSE

\* if bool_return_first
SimReturnFirst(flag) == flag

\* ErrorDetectorSim.detection is called: the entry test and the segmentation.
SimCall(flag) ==
    /\ self.class = Sim
    /\ Activate(flag)
    /\ IF SimStartBeyond(tag_seq, start_pos) THEN ReturnAtOnce ELSE Segment

\* A unit before start_pos is passed over.
SimSkip ==
    /\ InLoop(Sim)
    /\ SimBefore(pointers[i], start_pos)
    /\ Continue
    /\ UNCHANGED <<batching, args, bool_return_first, semantic_units, pointers, x, y,
                   segment_calls, eval_tf_reads, model_calls, prev>>

\* The loop is exhausted: return err_su_pointer_pairs.
SimReturn ==
    /\ self.class = Sim
    /\ pc = "loop"
    /\ i > Len(semantic_units)
    /\ Return(err_su_pointer_pairs)
    /\ UNCHANGED <<batching, args, bool_return_first, semantic_units, pointers, i,
                   err_su_pointer_pairs, x, y, segment_calls, eval_tf_reads,
                   model_calls, prev>>

\* The test without its negation.
SimErroneousInverted(bool_correct) == bool_correct

\* if not bool_correct
SimErroneous(bool_correct) == ~bool_correct

\* One pass through the loop body: bool_correct = eval_tf[pointer] ...
SimExamine ==
    /\ InLoop(Sim)
    /\ ~SimBefore(pointers[i], start_pos)
    /\ eval_tf_reads' = eval_tf_reads + 1
    /\ LET semantic_unit == semantic_units[i]
           pointer == pointers[i]
       IN  IF eval_tf.type = "NoneType"
           THEN /\ Raise("TypeError")
                /\ UNCHANGED <<i, err_su_pointer_pairs>>
           ELSE IF pointer >= Len(eval_tf.items)
           THEN /\ Raise("IndexError")
                /\ UNCHANGED <<i, err_su_pointer_pairs>>
           ELSE LET bool_correct == eval_tf.items[pointer + 1]
                IN  IF SimErroneous(bool_correct)
                    THEN AppendPair(semantic_unit, pointer,
                                    SimReturnFirst(bool_return_first))
                    ELSE Continue
    /\ UNCHANGED <<batching, args, bool_return_first, semantic_units, pointers, x, y,
                   segment_calls, model_calls, prev>>

----------------------------------------------------------------------------
(* ErrorDetectorProbability *)

\* ErrorDetectorProbability(threshold)
ProbabilityInit ==
    /\ \E threshold \in {0, Half, One} :
           self = [class |-> Probability, prob_threshold |-> threshold]
    /\ \E f \in SeqsUpTo({OUTSIDE, "SELECT_COL"} \X ProbValues, MaxLen) :
           tag_seq = DecisionSeq(f)
    /\ eval_tf = NoneObject

\* if start_pos >= len(tag_seq)
ProbabilityStartBeyond(seq, pos) == pos >= Len(seq)

\* The test of the pointer one position too low.
ProbabilityBeforeOffByOne(pointer, pos) == pointer + 1 < pos

\* if pointer < start_pos
ProbabilityBefore(pointer, pos) == pointer < pos

\* if bool_return_first
ProbabilityReturnFirst(flag) == flag

\* ErrorDetectorProbability.detection is called: the entry test and the segmentation.
ProbabilityCall(flag) ==
    /\ self.class = Probability
    /\ Activate(flag)
    /\ IF ProbabilityStartBeyond(tag_seq, start_pos) THEN ReturnAtOnce ELSE Segment

\* A unit before start_pos is passed over.
ProbabilitySkip ==
    /\ InLoop(Probability)
    /\ ProbabilityBefore(pointers[i], start_pos)
    /\ Continue
    /\ UNCHANGED <<batching, args, bool_return_first, semantic_units, pointers, x, y,
                   segment_calls, eval_tf_reads, model_calls, prev>>

\* The loop is exhausted: return err_su_pointer_pairs.
ProbabilityReturn ==
    /\ self.class = Probability
    /\ pc = "loop"
    /\ i > Len(semantic_units)
    /\ Return(err_su_pointer_pairs)
    /\ UNCHANGED <<batching, args, bool_return_first, semantic_units, pointers, i,
                   err_su_pointer_pairs, x, y, segment_calls, eval_tf_reads,
                   model_calls, prev>>

\* The test with <= for <.
ProbabilityErroneousOrEqual(prob, prob_threshold) == prob <= prob_threshold

\* if prob < self.prob_threshold
ProbabilityErroneous(prob, prob_threshold) == prob < prob_threshold

\* One pass through the loop body: prob = semantic_unit[-2] ...
ProbabilityExamine ==
    /\ InLoop(Probability)
    /\ ~ProbabilityBefore(pointers[i], start_pos)
    /\ LET semantic_unit == semantic_units[i]
           pointer == pointers[i]
           prob == semantic_unit[Len(semantic_unit) - 1]
       IN  IF ProbabilityErroneous(prob, self.prob_threshold)
           THEN AppendPair(semantic_unit, pointer,
                           ProbabilityReturnFirst(bool_return_first))
           ELSE Continue
    /\ UNCHANGED <<batching, args, bool_return_first, semantic_units, pointers, x, y,
                   segment_calls, eval_tf_reads, model_calls, prev>>

----------------------------------------------------------------------------
(* ErrorDetectorBayesDropout *)

\* The confidence collections of the decisions: the probabilities, in
\* tenths, that repeated stochastic passes gave the same decision.
ConfidenceSamples == {<<1, 1, 1>>, <<5, 5, 5>>, <<9, 1, 5>>, <<6, 8>>}

\* The thresholds of the detectors constructed, in tenths.
StddevThresholds == {0, 1}

\* ErrorDetectorBayesDropout(threshold)
BayesDropoutInit ==
    /\ \E threshold \in StddevThresholds :
           self = [class |-> BayesDropout, stddev_threshold |-> threshold]
    /\ \E f \in SeqsUpTo({OUTSIDE, "SELECT_COL"} \X ConfidenceSamples, MaxLen) :
           tag_seq = DecisionSeq(f)
    /\ eval_tf = NoneObject

\* if start_pos >= len(tag_seq)
BayesDropoutStartBeyond(seq, pos) == pos >= Len(seq)

\* if pointer < start_pos
BayesDropoutBefore(pointer, pos) == pointer < pos

\* if bool_return_first
BayesDropoutReturnFirst(flag) == flag

\* ErrorDetectorBayesDropout.detection is called: the entry test and the segmentation.
BayesDropoutCall(flag) ==
    /\ self.class = BayesDropout
    /\ Activate(flag)
    /\ IF BayesDropoutStartBeyond(tag_seq, start_pos) THEN ReturnAtOnce ELSE Segment

\* A unit before start_pos is passed over.
BayesDropoutSkip ==
    /\ InLoop(BayesDropout)
    /\ BayesDropoutBefore(pointers[i], start_pos)
    /\ Continue
    /\ UNCHANGED <<batching, args, bool_return_first, semantic_units, pointers, x, y,
                   segment_calls, eval_tf_reads, model_calls, prev>>

\* The loop is exhausted: return err_su_pointer_pairs.
BayesDropoutReturn ==
    /\ self.class = BayesDropout
    /\ pc = "loop"
    /\ i > Len(semantic_units)
    /\ Return(err_su_pointer_pairs)
    /\ UNCHANGED <<batching, args, bool_return_first, semantic_units, pointers, i,
                   err_su_pointer_pairs, x, y, segment_calls, eval_tf_reads,
                   model_calls, prev>>

\* np.asarray(samples): the float64 array of a list of floats given in
\* tenths.
AsArray(samples) == [k \in DOMAIN samples |-> FTenths(samples[k])]

RECURSIVE NpVarOver(_)
NpVarOver(S) ==
    IF S = {} THEN <<>>
    ELSE LET c == CHOOSE c \in S : TRUE
         IN  (c :> NpVar(AsArray(c))) @@ NpVarOver(S \ {c})

\* The variance numpy computes, evaluated once for every collection of the
\* model.
NpVarOf == NpVarOver(ConfidenceSamples)

\* np.std(samples) > threshold, the threshold given in tenths
NpStdGreater(samples, threshold) ==
    FSqrtGreater(NpVarOf[samples], FTenths(threshold))

RECURSIVE NpStdGreaterOver(_)
NpStdGreaterOver(S) ==
    IF S = {} THEN <<>>
    ELSE LET st == CHOOSE st \in S : TRUE
         IN  (st :> NpStdGreater(st[1], st[2])) @@ NpStdGreaterOver(S \ {st})

\* NpStdGreater, evaluated once for every collection and threshold of the
\* model.
NpStdGreaterOf == NpStdGreaterOver(ConfidenceSamples \X StddevThresholds)

\* The test with >= for >.
BayesDropoutErroneousOrEqual(samples, stddev_threshold) ==
    \/ NpStdGreaterOf[<<samples, stddev_threshold>>]
    \/ NpVarOf[samples] = FZero /\ stddev_threshold = 0

\* stddev = np.std(semantic_unit[-2]); if stddev > self.stddev_threshold
BayesDropoutErroneous(samples, stddev_threshold) ==
    NpStdGreaterOf[<<samples, stddev_threshold>>]

\* One pass through the loop body: stddev = np.std(semantic_unit[-2]) ...
BayesDropoutExamine ==
    /\ InLoop(BayesDropout)
    /\ ~BayesDropoutBefore(pointers[i], start_pos)
    /\ LET semantic_unit == semantic_units[i]
           pointer == pointers[i]
           samples == semantic_unit[Len(semantic_unit) - 1]
       IN  IF BayesDropoutErroneous(samples, self.stddev_threshold)
           THEN AppendPair(semantic_unit, pointer,
                           BayesDropoutReturnFirst(bool_return_first))
           ELSE Continue
    /\ UNCHANGED <<batching, args, bool_return_first, semantic_units, pointers, x, y,
                   segment_calls, eval_tf_reads, model_calls, prev>>

----------------------------------------------------------------------------
(* ErrorDetectorFNN *)

\* The indexers of the model information: each numbers the tags it knows
\* from 0.
Indexers ==
    {ix \in UNION {[D -> 0 .. Cardinality(D) - 1] : D \in SUBSET UnitTags \ {{}}} :
        \A a, b \in DOMAIN ix : a # b => ix[a] # ix[b]}

\* The classifiers of the model information, by name: "sum" answers the
\* probability slot of its input, raised by 0.5 unless the tag numbered 0 is
\* the hot one; "half" always answers 0.5.
Classifiers == {"sum", "half"}

\* self.model(x): the one-element tensor the classifier answers.
Forward(model, t) ==
    IF model = "half" THEN Float32(Half)
    ELSE IF Item(t[1]) = One THEN t[Len(t)]
    ELSE Float32(Item(t[Len(t)]) + Half)

\* ErrorDetectorFNN(mi)
FNNInit ==
    /\ \E indexer \in Indexers :
           LET input_size == Cardinality(DOMAIN indexer) + 1
           IN  \E model \in Classifiers :
                   self = [class |-> FNN, indexer |-> indexer,
                           model |-> model, input_size |-> input_size]
    /\ \E f \in SeqsUpTo((UnitTags \cup {OUTSIDE}) \X {0, 4}, MaxLen) :
           tag_seq = DecisionSeq(f)
    /\ eval_tf = NoneObject

\* The entry test with > for >=.
FNNStartBeyondStrict(seq, pos) == pos > Len(seq)

\* if start_pos >= len(tag_seq)
FNNStartBeyond(seq, pos) == pos >= Len(seq)

\* if pointer < start_pos
FNNBefore(pointer, pos) == pointer < pos

\* if bool_return_first
FNNReturnFirst(flag) == flag

\* ErrorDetectorFNN.detection is called: the entry test and the segmentation.
FNNCall(flag) ==
    /\ self.class = FNN
    /\ Activate(flag)
    /\ IF FNNStartBeyond(tag_seq, start_pos) THEN ReturnAtOnce ELSE Segment

\* A unit before start_pos is passed over.
FNNSkip ==
    /\ InLoop(FNN)
    /\ FNNBefore(pointers[i], start_pos)
    /\ Continue
    /\ UNCHANGED <<batching, args, bool_return_first, semantic_units, pointers, x, y,
                   segment_calls, eval_tf_reads, model_calls, prev>>

\* The loop is exhausted: return err_su_pointer_pairs.
FNNReturn ==
    /\ self.class = FNN
    /\ pc = "loop"
    /\ i > Len(semantic_units)
    /\ Return(err_su_pointer_pairs)
    /\ UNCHANGED <<batching, args, bool_return_first, semantic_units, pointers, i,
                   err_su_pointer_pairs, x, y, segment_calls, eval_tf_reads,
                   model_calls, prev>>

\* x = np.zeros((1, self.input_size))
Zeros(input_size) == [k \in 1 .. input_size |-> 0]

\* The feature vector without its probability slot set.
FeatureVectorWithoutProb(input_size, col_idx, prob) ==
    [Zeros(input_size) EXCEPT ![col_idx + 1] = One]

\* x[0, -1] = prob; x[0, col_idx] = 1
FeatureVector(input_size, col_idx, prob) ==
    LET x0 == Zeros(input_size)
        x1 == [x0 EXCEPT ![input_size] = prob]
    IN  [x1 EXCEPT ![col_idx + 1] = One]

\* The test with <= for <.
FNNErroneousOrEqual(out) == out <= Half

\* if y < 0.5
FNNErroneous(out) == out < Half

\* The lookup with a default, as indexer.get(tag_name, 0) would do it.
IndexerGetOrDefault(indexer, tag_name) ==
    IF tag_name \in DOMAIN indexer
    THEN [raised |-> None, value |-> indexer[tag_name]]
    ELSE [raised |-> None, value |-> 0]

\* col_idx = self.indexer[tag_name]: the index of the tag, or the KeyError
\* of a tag the indexer does not hold.
IndexerGet(indexer, tag_name) ==
    IF tag_name \in DOMAIN indexer
    THEN [raised |-> None, value |-> indexer[tag_name]]
    ELSE [raised |-> "KeyError", value |-> None]

\* One pass through the loop body: prob = semantic_unit[-2] ...
FNNExamine ==
    /\ InLoop(FNN)
    /\ ~FNNBefore(pointers[i], start_pos)
    /\ LET semantic_unit == semantic_units[i]
           pointer == pointers[i]
           prob == semantic_unit[Len(semantic_unit) - 1]
           tag_name == semantic_unit[1]
           got == IndexerGet(self.indexer, tag_name)
       IN  IF got.raised # None
           THEN /\ Raise(got.raised)
                /\ x' = Zeros(self.input_size)
                /\ UNCHANGED <<i, err_su_pointer_pairs, y, model_calls>>
           ELSE LET col_idx == got.value
                    row == FeatureVector(self.input_size, col_idx, prob)
                    out == Item(Forward(self.model, Tensor(row)))
                IN  /\ x' = Tensor(row)
                    /\ model_calls' = Append(model_calls, Tensor(row))
                    /\ y' = out
                    /\ IF FNNErroneous(out)
                       THEN AppendPair(semantic_unit, pointer,
                                       FNNReturnFirst(bool_return_first))
                       ELSE Continue
    /\ UNCHANGED <<batching, args, bool_return_first, semantic_units, pointers,
                   segment_calls, eval_tf_reads, prev>>

----------------------------------------------------------------------------
(* ATISDataset.get_utterance_batches and ATISDataset.get_interaction_batches *)

\* atis_batch.UtteranceItem(interaction, index)
UtteranceItem(interaction, index) ==
    [type |-> "UtteranceItem", interaction |-> interaction.name,
     index |-> index]

\* atis_batch.InteractionItem(interaction, ...), and len() of it: the number
\* of utterances of the interaction.
InteractionItem(interaction) ==
    [type |-> "InteractionItem", interaction |-> interaction]

ItemLen(item) == Len(item.interaction.utterances)

\* atis_batch.UtteranceBatch(items), atis_batch.InteractionBatch(items) and
\* len() of a batch: the number of its items.
UtteranceBatch(its) == [type |-> "UtteranceBatch", items |-> its]

InteractionBatch(its) == [type |-> "InteractionBatch", items |-> its]

BatchLen(batch) == Len(batch.items)

\* The inner loop of get_all_utterances: the utterances of one interaction
\* from position u on, those kept for which length_valid holds.
RECURSIVE UtterancesOf(_, _)
UtterancesOf(interaction, u) ==
    IF u > Len(interaction.utterances)
    THEN <<>>
    ELSE (IF interaction.utterances[u]
          THEN <<UtteranceItem(interaction, u - 1)>>
          ELSE <<>>) \o UtterancesOf(interaction, u + 1)

\* The outer loop of get_all_utterances, from example e on.
RECURSIVE UtterancesFrom(_, _)
UtterancesFrom(examples, e) ==
    IF e > Len(examples)
    THEN <<>>
    ELSE UtterancesOf(examples[e], 1) \o UtterancesFrom(examples, e + 1)

get_all_utterances(dataset) == UtterancesFrom(dataset, 1)

\* sorted(ints, key=lambda x: len(x)): ascending, equal lengths kept in
\* their order.
RECURSIVE SortedByLen(_)
SortedByLen(ints) ==
    IF ints = <<>>
    THEN <<>>
    ELSE LET last == ints[Len(ints)]
             front == SortedByLen(SubSeq(ints, 1, Len(ints) - 1))
             NotLonger(item) == ItemLen(item) <= ItemLen(last)
             Longer(item) == ItemLen(item) > ItemLen(last)
         IN  SelectSeq(front, NotLonger) \o <<last>> \o
                 SelectSeq(front, Longer)

\* s[::-1]
RECURSIVE Reversed(_)
Reversed(s) == IF s = <<>> THEN <<>> ELSE Append(Reversed(Tail(s)), Head(s))

\* [InteractionItem(interaction, ...) for interaction in dataset.examples]
RECURSIVE InteractionItems(_)
InteractionItems(examples) ==
    IF examples = <<>>
    THEN <<>>
    ELSE <<InteractionItem(Head(examples))>> \o
             InteractionItems(Tail(examples))

get_all_interactions(dataset, sorted_by_length) ==
    LET ints == InteractionItems(dataset)
    IN  IF sorted_by_length THEN Reversed(SortedByLen(ints)) ELSE ints

\* The items of s in the order p of their positions, from the k-th on.
RECURSIVE InOrder(_, _, _)
InOrder(s, p, k) ==
    IF k > Len(s) THEN <<>> ELSE <<s[p[k]]>> \o InOrder(s, p, k + 1)

\* random.shuffle(s): the items of s in any order of their positions.
Shuffles(s) == {InOrder(s, p, 1) : p \in Permutations(DOMAIN s)}

RECURSIVE SumLen(_)
\* sum([len(batch) for batch in batches])
SumLen(bs) ==
    IF bs = <<>> THEN 0 ELSE BatchLen(bs[1]) + SumLen(Tail(bs))

\* A method is called: its arguments, and the locals before the loop. One
\* call is followed to its end: a call keeps nothing for the next one.
Enter(name, size, rand, its) ==
    /\ method' = name
    /\ batch_size' = size
    /\ randomize' = rand
    /\ items' = its
    /\ batches' = <<>>
    /\ current_batch_items' = <<>>
    /\ item_pos' = 1
    /\ pc' = "loop"
    /\ ret' = <<>>
    /\ exc' = None
    /\ UNCHANGED <<self, detecting>>

InBatchLoop(name) ==
    /\ self.class = ATISDataset
    /\ method = name
    /\ pc = "loop"
    /\ item_pos <= Len(items)

\* batches.append(batch); current_batch_items = []
\* current_batch_items.append(item)
NewBatch(batch) ==
    /\ batches' = Append(batches, batch)
    /\ current_batch_items' = <<items[item_pos]>>
    /\ item_pos' = item_pos + 1
    /\ UNCHANGED <<self, detecting, method, batch_size, randomize, items,
                   pc, ret, exc>>

\* current_batch_items.append(item)
SameBatch ==
    /\ current_batch_items' = Append(current_batch_items, items[item_pos])
    /\ item_pos' = item_pos + 1
    /\ UNCHANGED <<self, detecting, method, batch_size, randomize, items,
                   batches, pc, ret, exc>>

\* batches.append(batch)
\* assert sum([len(batch) for batch in batches]) == len(items)
\* return batches
LastBatch(batch) ==
    /\ batches' = Append(batches, batch)
    /\ IF SumLen(batches') = Len(items)
       THEN Return(batches')
       ELSE Raise("AssertionError")
    /\ UNCHANGED <<self, detecting, method, batch_size, randomize, items,
                   current_batch_items, item_pos>>

\* A batch is closed only when it holds more than batch_size items.
UtteranceFullStrict(current, size) == Len(current) > size

\* if len(current_batch_items) >= batch_size
UtteranceFull(current, size) == Len(current) >= size

\* get_utterance_batches is called: items = self.get_all_utterances(...),
\* shuffled if randomize.
GetUtteranceBatches(size, rand) ==
    /\ self.class = ATISDataset
    /\ pc = "idle"
    /\ LET all == get_all_utterances(self.train_data)
       IN  \E its \in (IF rand THEN Shuffles(all) ELSE {all}) :
               Enter(get_utterance_batches, size, rand, its)

UtteranceNewBatch ==
    /\ InBatchLoop(get_utterance_batches)
    /\ UtteranceFull(current_batch_items, batch_size)
    /\ NewBatch(UtteranceBatch(current_batch_items))

UtteranceSameBatch ==
    /\ InBatchLoop(get_utterance_batches)
    /\ ~UtteranceFull(current_batch_items, batch_size)
    /\ SameBatch

UtteranceReturn ==
    /\ self.class = ATISDataset
    /\ method = get_utterance_batches
    /\ pc = "loop"
    /\ item_pos > Len(items)
    /\ LastBatch(UtteranceBatch(current_batch_items))

\* if len(current_batch_items) >= batch_size
InteractionFull(current, size) == Len(current) >= size

\* get_interaction_batches is called: items = self.get_all_interactions(...,
\* sorted_by_length=not randomize), shuffled if randomize.
GetInteractionBatches(size, rand) ==
    /\ self.class = ATISDataset
    /\ pc = "idle"
    /\ LET all == get_all_interactions(self.train_data, ~rand)
       IN  \E its \in (IF rand THEN Shuffles(all) ELSE {all}) :
               Enter(get_interaction_batches, size, rand, its)

InteractionNewBatch ==
    /\ InBatchLoop(get_interaction_batches)
    /\ InteractionFull(current_batch_items, batch_size)
    /\ NewBatch(InteractionBatch(current_batch_items))

InteractionSameBatch ==
    /\ InBatchLoop(get_interaction_batches)
    /\ ~InteractionFull(current_batch_items, batch_size)
    /\ SameBatch

InteractionReturn ==
    /\ self.class = ATISDataset
    /\ method = get_interaction_batches
    /\ pc = "loop"
    /\ item_pos > Len(items)
    /\ LastBatch(InteractionBatch(current_batch_items))

\* No batching method has been called.
NoBatches ==
    /\ method = None
    /\ batch_size = 0
    /\ randomize = FALSE
    /\ items = <<>>
    /\ batches = <<>>
    /\ current_batch_items = <<>>
    /\ item_pos = 1

----------------------------------------------------------------------------

Init ==
    /\ \/ SimInit
       \/ ProbabilityInit
       \/ BayesDropoutInit
       \/ FNNInit
    /\ start_pos \in StartPositions
    /\ bool_return_first = FALSE
    /\ pc = "idle"
    /\ semantic_units = <<>>
    /\ pointers = <<>>
    /\ i = 1
    /\ err_su_pointer_pairs = <<>>
    /\ x = <<>>
    /\ y = None
    /\ ret = <<>>
    /\ exc = None
    /\ segment_calls = 0
    /\ eval_tf_reads = 0
    /\ model_calls = <<>>
    /\ prev = NoCall
    /\ NoBatches

Next ==
    \/ \E flag \in BOOLEAN : SimCall(flag)
    \/ SimSkip
    \/ SimExamine
    \/ SimReturn
    \/ \E flag \in BOOLEAN : ProbabilityCall(flag)
    \/ ProbabilitySkip
    \/ ProbabilityExamine
    \/ ProbabilityReturn
    \/ \E flag \in BOOLEAN : BayesDropoutCall(flag)
    \/ BayesDropoutSkip
    \/ BayesDropoutExamine
    \/ BayesDropoutReturn
    \/ \E flag \in BOOLEAN : FNNCall(flag)
    \/ FNNSkip
    \/ FNNExamine
    \/ FNNReturn

Spec == Init /\ [][Next]_vars

\* No call is in progress and none has been made.
NothingCalled ==
    /\ bool_return_first = FALSE
    /\ pc = "idle"
    /\ semantic_units = <<>>
    /\ pointers = <<>>
    /\ i = 1
    /\ err_su_pointer_pairs = <<>>
    /\ x = <<>>
    /\ y = None
    /\ ret = <<>>
    /\ exc = None
    /\ segment_calls = 0
    /\ eval_tf_reads = 0
    /\ model_calls = <<>>
    /\ prev = NoCall

\* The abstract base instantiated and called, again and again.
InitErrorDetector ==
    /\ ErrorDetectorInit
    /\ start_pos \in StartPositions
    /\ NothingCalled
    /\ NoBatches

NextErrorDetector ==
    \/ \E flag \in BOOLEAN : ErrorDetectorCall(flag)

SpecErrorDetector == InitErrorDetector /\ [][NextErrorDetector]_vars

\* A dataset whose batching methods are called, again and again.
InitBatches ==
    /\ \E d \in SeqsUpTo(Interactions, MaxExamples) :
           self = [class |-> ATISDataset, train_data |-> d]
    /\ tag_seq = <<>>
    /\ start_pos = 0
    /\ eval_tf = NoneObject
    /\ NothingCalled
    /\ NoBatches

NextBatches ==
    \/ \E size \in 0 .. MaxBatchSize, rand \in BOOLEAN :
           GetUtteranceBatches(size, rand)
    \/ UtteranceNewBatch
    \/ UtteranceSameBatch
    \/ UtteranceReturn
    \/ \E size \in 0 .. MaxBatchSize, rand \in BOOLEAN :
           GetInteractionBatches(size, rand)
    \/ InteractionNewBatch
    \/ InteractionSameBatch
    \/ InteractionReturn

SpecBatches == InitBatches /\ [][NextBatches]_vars

----------------------------------------------------------------------------
(* What the claims speak of *)

Called == pc # "idle"

Returned == pc = "returned"

\* The (semantic_unit, pointer) pairs of the segmentation of tag_seq.
SegPairs ==
    LET seg == semantic_unit_segment(tag_seq)
    IN  [k \in DOMAIN seg[1] |-> <<seg[1][k], seg[2][k]>>]

\* The confidence field of a semantic unit.
Conf(semantic_unit) == semantic_unit[Len(semantic_unit) - 1]

FromStart(pair) == pair[2] >= start_pos

\* The segmented pairs at or after start_pos: those the loop examines.
Examined == SelectSeq(SegPairs, FromStart)

\* s is t with some elements left out.
IsSubsequence(s, t) ==
    \E f \in [1 .. Len(s) -> 1 .. Len(t)] :
        /\ \A k \in 1 .. Len(s) : s[k] = t[f[k]]
        /\ \A j, k \in 1 .. Len(s) : j < k => f[j] < f[k]

\* C1: in every variant, a call with start_pos >= len(tag_seq) returns the
\* empty list, and has neither called the segmentation, nor read eval_tf,
\* nor invoked the classifier.
C1_ShortCircuit ==
    (Called /\ start_pos >= Len(tag_seq)) =>
        /\ Returned
        /\ ret = <<>>
        /\ segment_calls = 0
        /\ eval_tf_reads = 0
        /\ model_calls = <<>>

\* A detector that would otherwise have failed on its first unit returns
\* the empty list for a start_pos beyond a sequence that is not empty.
C1_Witness ==
    /\ Returned
    /\ self.class = Sim
    /\ eval_tf.type = "NoneType"
    /\ Len(SegPairs) > 0
    /\ start_pos >= Len(tag_seq)
    /\ ret = <<>>

\* C2: in every variant, for every start_pos and both values of the flag,
\* every pair of the list returned has a pointer >= start_pos.
C2_PointerFromStart ==
    Returned => \A k \in DOMAIN ret : ret[k][2] >= start_pos

\* Units before start_pos were passed over and a later one was returned.
C2_Witness ==
    /\ Returned
    /\ ret # <<>>
    /\ start_pos > 0
    /\ \E k \in DOMAIN SegPairs : SegPairs[k][2] < start_pos

\* C3: in every variant, the list returned is a subsequence of the
\* segmented pairs, in their order and with no pair twice, so that its
\* pointers do not decrease.
C3_SegmentationOrder ==
    Returned =>
        /\ IsSubsequence(ret, SegPairs)
        /\ \A j, k \in DOMAIN ret : j < k => ret[j][2] <= ret[k][2]

\* Two pairs were returned, the one of the lower pointer first.
C3_Witness ==
    /\ Returned
    /\ Len(ret) > 1
    /\ ret[1][2] < ret[2][2]

\* The outcomes of two successive calls that differ in the flag alone.
BothCalled == Finished /\ prev.called /\ prev.flag # bool_return_first
FirstOnly == IF bool_return_first THEN Outcome ELSE prev
Whole == IF bool_return_first THEN prev ELSE Outcome

FirstOf(list) == IF list = <<>> THEN <<>> ELSE <<list[1]>>

\* C4, as claimed: in every variant and for all inputs, the result with
\* the flag True is empty or holds exactly the first element of the result
\* of the same call with the flag False, and is empty exactly when that one
\* is.
C4_AsClaimed ==
    (BothCalled /\ FirstOnly.pc = "returned") =>
        /\ Whole.pc = "returned"
        /\ FirstOnly.ret = FirstOf(Whole.ret)

\* C4: in every variant, whenever the call with the flag False returns a
\* list, the same call with the flag True returns too, and its list is
\* empty or holds exactly the first element of that list, empty exactly
\* when that list is.
C4_ReturnFirst ==
    (BothCalled /\ Whole.pc = "returned") =>
        /\ FirstOnly.pc = "returned"
        /\ FirstOnly.ret = FirstOf(Whole.ret)

\* The whole result has two pairs and the flag cut it to its first.
C4_Witness ==
    /\ BothCalled
    /\ Whole.pc = "returned"
    /\ Len(Whole.ret) > 1
    /\ FirstOnly.ret = <<Whole.ret[1]>>

BelowThreshold(pair) ==
    FromStart(pair) /\ Conf(pair[1]) < self.prob_threshold

BelowOne(pair) == FromStart(pair) /\ Conf(pair[1]) < One

\* C5: ErrorDetectorProbability.detection with the flag False returns
\* exactly the segmented pairs with pointer >= start_pos whose probability
\* is strictly below prob_threshold; so threshold 0 flags nothing and
\* threshold 1 flags exactly the units of probability below 1.
C5_ProbabilityThreshold ==
    (self.class = Probability /\ Returned /\ ~bool_return_first) =>
        /\ ret = SelectSeq(SegPairs, BelowThreshold)
        /\ self.prob_threshold = 0 => ret = <<>>
        /\ self.prob_threshold = One => ret = SelectSeq(SegPairs, BelowOne)

\* A unit below the threshold was flagged and one at the threshold was not.
C5_Witness ==
    /\ self.class = Probability
    /\ Returned
    /\ ~bool_return_first
    /\ ret # <<>>
    /\ \E k \in DOMAIN Examined :
           Conf(Examined[k][1]) = self.prob_threshold

\* eval_tf is a list that can be indexed at every segmented pointer.
Indexable ==
    /\ eval_tf.type = "list"
    /\ \A k \in DOMAIN SegPairs : SegPairs[k][2] < Len(eval_tf.items)

EvaluatedFalse(pair) == FromStart(pair) /\ ~eval_tf.items[pair[2] + 1]

\* C6: ErrorDetectorSim.detection with the flag False, given an eval_tf
\* that can be indexed at every segmented pointer, returns exactly the
\* segmented pairs with pointer >= start_pos at which eval_tf is false,
\* whatever the probabilities of the units.
C6_SimulatedOracle ==
    (self.class = Sim /\ Indexable /\ Finished /\ ~bool_return_first) =>
        /\ Returned
        /\ ret = SelectSeq(SegPairs, EvaluatedFalse)

\* A unit of probability 1.0 was flagged and one of probability 0.4 was not.
C6_Witness ==
    /\ self.class = Sim
    /\ Indexable
    /\ Returned
    /\ ~bool_return_first
    /\ \E k \in DOMAIN ret : Conf(ret[k][1]) = One
    /\ \E k \in DOMAIN Examined :
           /\ Conf(Examined[k][1]) = 4
           /\ \A j \in DOMAIN ret : ret[j] # Examined[k]

\* The answer of the classifier to the k-th input handed to it.
Answer(k) == Item(Forward(self.model, model_calls[k]))

\* The pairs, among the first n examined, whose answer is below 0.5.
RECURSIVE AnsweredBelowHalf(_)
AnsweredBelowHalf(n) ==
    IF n = 0 THEN <<>>
    ELSE IF Answer(n) < Half
         THEN Append(AnsweredBelowHalf(n - 1), Examined[n])
         ELSE AnsweredBelowHalf(n - 1)

\* C7: ErrorDetectorFNN.detection flags a unit with pointer >= start_pos
\* and a known tag exactly when the answer of the classifier to the unit's
\* feature vector is strictly below 0.5: the pairs collected are, at every
\* moment, those of the units examined so far whose answer was below 0.5,
\* and with the flag False every unit from start_pos on is examined.
C7_ClassifierBelowHalf ==
    (self.class = FNN /\ Called) =>
        /\ Len(model_calls) <= Len(Examined)
        /\ err_su_pointer_pairs = AnsweredBelowHalf(Len(model_calls))
        /\ model_calls # <<>> => y = Answer(Len(model_calls))
        /\ Returned => ret = err_su_pointer_pairs
        /\ (Returned /\ ~bool_return_first) =>
               Len(model_calls) = Len(Examined)

\* One unit was answered exactly 0.5 and not flagged, another was flagged.
C7_Witness ==
    /\ self.class = FNN
    /\ Returned
    /\ ~bool_return_first
    /\ ret # <<>>
    /\ \E k \in DOMAIN model_calls :
           /\ Answer(k) = Half
           /\ \A j \in DOMAIN ret : ret[j] # Examined[k]

\* The slots of a tensor that are not 0.
NonZeroSlots(t) == {j \in DOMAIN t : Item(t[j]) # 0}

\* The slot of the tag of a unit, counted from 1.
TagSlot(semantic_unit) == self.indexer[semantic_unit[1]] + 1

RECURSIVE SumOf(_), SumOfSquares(_)
SumOf(c) == IF c = <<>> THEN 0 ELSE Head(c) + SumOf(Tail(c))
SumOfSquares(c) ==
    IF c = <<>> THEN 0 ELSE Head(c) * Head(c) + SumOfSquares(Tail(c))

\* The population variance of a collection given in tenths, times
\* 100 * len(c)^2, in exact arithmetic.
ExactSpread(c) == Len(c) * SumOfSquares(c) - SumOf(c) * SumOf(c)

\* Whether the exact population standard deviation exceeds the threshold.
ExactStdGreater(c, threshold) ==
    ExactSpread(c) > Len(c) * Len(c) * threshold * threshold

ExactlySpread(pair) ==
    FromStart(pair) /\ ExactStdGreater(Conf(pair[1]), self.stddev_threshold)

ComputedSpread(pair) ==
    FromStart(pair) /\ NpStdGreater(Conf(pair[1]), self.stddev_threshold)

AllEqual(c) == \A j, k \in DOMAIN c : c[j] = c[k]

\* C9, as claimed: ErrorDetectorBayesDropout.detection with the flag False
\* returns exactly the segmented pairs with pointer >= start_pos whose
\* samples have a population standard deviation above stddev_threshold,
\* and never a unit whose samples are all equal.
C9_AsClaimed ==
    (self.class = BayesDropout /\ Returned /\ ~bool_return_first) =>
        /\ ret = SelectSeq(SegPairs, ExactlySpread)
        /\ \A k \in DOMAIN ret : ~AllEqual(Conf(ret[k][1]))

\* C9: ErrorDetectorBayesDropout.detection with the flag False returns
\* exactly the segmented pairs with pointer >= start_pos for which np.std,
\* computed in float64, exceeds stddev_threshold.  That is the test of the
\* exact population standard deviation wherever the exact value differs
\* from the threshold; and a unit whose computed deviation is 0 is never
\* flagged.
C9_ComputedDeviation ==
    (self.class = BayesDropout /\ Returned /\ ~bool_return_first) =>
        /\ ret = SelectSeq(SegPairs, ComputedSpread)
        /\ \A k \in DOMAIN Examined :
               LET c == Conf(Examined[k][1])
                   t == self.stddev_threshold
                   flagged == \E j \in DOMAIN ret : ret[j] = Examined[k]
               IN  /\ ExactSpread(c) # Len(c) * Len(c) * t * t =>
                          (flagged <=> ExactStdGreater(c, t))
                   /\ NpVarOf[c] = FZero => ~flagged

\* At threshold 0.1 the spread unit was flagged, the unit of equal samples
\* was not.
C9_Witness ==
    /\ self.class = BayesDropout
    /\ Returned
    /\ ~bool_return_first
    /\ self.stddev_threshold = 1
    /\ \E k \in DOMAIN ret : Conf(ret[k][1]) = <<9, 1, 5>>
    /\ \E k \in DOMAIN Examined :
           /\ Conf(Examined[k][1]) = <<1, 1, 1>>
           /\ \A j \in DOMAIN ret : ret[j] # Examined[k]

Known(pair) == pair[1][1] \in DOMAIN self.indexer

\* The units the loop has examined: all before position i, and the one at
\* i too when the call ended there.
Passed ==
    LET upto == IF Finished /\ i <= Len(semantic_units) THEN i ELSE i - 1
        pairs == [k \in 1 .. upto |-> <<semantic_units[k], pointers[k]>>]
    IN  SelectSeq(pairs, FromStart)

Repeated == Finished /\ prev.called /\ prev.flag = bool_return_first

\* C11: for all four detector variants detection is free of side effects
\* and deterministic: no step of a call changes the decision sequence,
\* eval_tf, start_pos or the detector (its indexer, classifier,
\* prob_threshold, stddev_threshold, input_size), and a call that repeats
\* the call before it with the same inputs ends the same way, with the same
\* list or the same exception.
C11_SideEffectFree ==
    /\ [][args' = args]_vars
    /\ [](Repeated => Outcome = prev)

\* The same call was made twice, and twice it returned the same two pairs.
C11_Witness ==
    /\ Repeated
    /\ Returned
    /\ prev.pc = "returned"
    /\ Len(prev.ret) > 1
    /\ Len(ret) > 1

\* C12: detection called on the abstract base ErrorDetector ends, for every
\* input, in NotImplementedError: also for an empty decision sequence and
\* for start_pos >= len(tag_seq), where the subclasses return []. The base
\* never returns a list, neither in this call nor in the one before it,
\* and it does not reach the segmenter.
C12_BaseNotImplemented ==
    (self.class = ErrorDetector /\ Called) =>
        /\ pc = "raised"
        /\ exc = "NotImplementedError"
        /\ ret = <<>>
        /\ segment_calls = 0
        /\ prev.called =>
               prev.pc = "raised" /\ prev.exc = "NotImplementedError"

\* The base was called on an empty sequence, twice, and raised twice.
C12_Witness ==
    /\ self.class = ErrorDetector
    /\ tag_seq = <<>>
    /\ start_pos >= Len(tag_seq)
    /\ pc = "raised"
    /\ prev.called

\* The items of the batches, one batch after the other.
RECURSIVE Concatenated(_)
Concatenated(bs) ==
    IF bs = <<>> THEN <<>> ELSE bs[1].items \o Concatenated(Tail(bs))

\* What the method fetched from the training data before any shuffle.
Fetched ==
    IF method = get_utterance_batches
    THEN get_all_utterances(self.train_data)
    ELSE get_all_interactions(self.train_data, ~randomize)

Occurrences(e, s) == Cardinality({k \in DOMAIN s : s[k] = e})

\* s holds the items of t, each as often as t does.
Rearranged(s, t) ==
    /\ Len(s) = Len(t)
    /\ \A k \in DOMAIN t : Occurrences(t[k], s) = Occurrences(t[k], t)

\* C13: get_utterance_batches and get_interaction_batches called with
\* batch_size >= 1 end by returning, the assertion holding: the batches
\* concatenated in order are the item list (the fetched list, rearranged
\* when randomize is set), the lengths of the batches sum to the number of
\* items, no batch holds more than batch_size items, every batch but the
\* last holds exactly batch_size, and there is always a last batch, so
\* that no items give one empty batch.
C13_BatchesPartitionItems ==
    (self.class = ATISDataset /\ Finished /\ batch_size >= 1) =>
        /\ pc = "returned"
        /\ exc = None
        /\ IF randomize THEN Rearranged(items, Fetched) ELSE items = Fetched
        /\ Concatenated(ret) = items
        /\ SumLen(ret) = Len(items)
        /\ Len(ret) >= 1
        /\ \A k \in DOMAIN ret : BatchLen(ret[k]) <= batch_size
        /\ \A k \in 1 .. Len(ret) - 1 : BatchLen(ret[k]) = batch_size
        /\ \A k \in DOMAIN ret :
               ret[k].type = IF method = get_utterance_batches
                             THEN "UtteranceBatch"
                             ELSE "InteractionBatch"
        /\ items = <<>> => Len(ret) = 1 /\ BatchLen(ret[1]) = 0

\* Three shuffled items were returned in a batch of two and a batch of one.
C13_Witness ==
    /\ self.class = ATISDataset
    /\ Returned
    /\ randomize
    /\ batch_size = 2
    /\ Len(items) = 3
    /\ items # Fetched
    /\ Len(ret) = 2
    /\ BatchLen(ret[2]) = 1

====
